---- MODULE Spec2Model ----
(***************************************************************************)
(* tinioc: a dependency-resolution registry.  A Container maps ids to      *)
(* component factories and keeps an ordered list of parent containers that *)
(* are searched, depth first and in list order, when the id is not bound   *)
(* locally.  get(id) finds the factory and invokes it with an inject       *)
(* function that is get bound to the container get was called on.  An      *)
(* earlier variant of the container keeps its bindings in a plain object,   *)
(* has a single parent and a static merge; it is modelled beside the first. *)
(***************************************************************************)
EXTENDS Integers, Sequences, FiniteSets, TLC

\* ---------------------------------------------------------------- bounds
\* Containers that can be constructed (new Container() and createChild()).
MaxContainers == 3
\* Method calls in one behaviour; extend(a, b) counts one per container passed.
MaxCalls == 5
\* Method calls on the plain-object containers in one behaviour.
MaxRecordCalls == 4
\* Nested calls of get the call stack holds.
MaxDepth == 4

\* ------------------------------------------------------------- universe
\* type ID = string | symbol
Ids == {"x", "y"}

\* Component factories handed to register.  "fa" and "fb" request nothing,
\* "needX" requests id "x" through inject while it constructs its value and
\* "needY" requests id "y".  "laterX" requests nothing while it constructs:
\* the object it returns has a method that requests id "x" through inject
\* each time it is called.  "boom" throws an error of its own.
Factories == {"fa", "fb", "needX", "needY", "laterX", "boom"}

Requests(f) == IF f = "needX" THEN <<"x">> ELSE IF f = "needY" THEN <<"y">> ELSE <<>>

\* The ids the method of the object built by f requests when it is called.
Deferred(f) == IF f = "laterX" THEN <<"x">> ELSE <<>>

Throws(f) == f = "boom"

\* register<T>(id, FactoryOf<T>): the factories that produce the component
\* type declared for id.
FactoriesFor(id) == IF id = "x" THEN {"fa", "fb"} ELSE {"needX"}

\* The ids and factories of the containers that keep their bindings in a
\* plain object: a symbol, a string, and the string "__proto__", which names
\* the accessor every plain object inherits from Object.prototype.
RecordIds == {"Symbol(messages)", "numbers", "__proto__"}

\* The same ids and the string "toString", which names a method every plain
\* object inherits from Object.prototype.
PropertyIds == RecordIds \cup {"toString"}

isSymbol(id) == id = "Symbol(messages)"

\* "messages" and "numbers" request nothing; "greeter" requests id "numbers"
\* through the get of its context.
RecordFactories == {"messages", "numbers", "greeter"}

RecordRequests(f) == IF f = "greeter" THEN <<"numbers">> ELSE <<>>

RecordFactoriesFor(id) ==
    IF id = "numbers" THEN {"numbers", "messages"}
    ELSE IF isSymbol(id) THEN {"messages", "greeter"}
    ELSE {"messages"}

\* Map.get of an id the map does not hold, and a function without a return.
Undefined == "undefined"

\* Lists of containers passed to extend(...containers).
ArgLists(S) == {<<a>> : a \in S} \cup {<<a, b>> : a, b \in S}

VARIABLES
    count,      \* number of containers constructed so far: they are 1..count
    bindings,   \* bindings[c][id]: the factory of id in c's Map, or Undefined
    parents,    \* parents[c]: Container.parents, a sequence of containers
    origin,     \* origin[c]: the container whose createChild() made c, or 0
    invocations, \* invocations[f]: how many times factory f has been invoked
    recordCount,    \* plain-object containers constructed so far: 1..recordCount
    recordBindings, \* recordBindings[c]: the bindings object of such a container
    parent,         \* parent[c]: Container.parent, or NoParent
    mergedFrom,     \* mergedFrom[c]: the containers Container.merge built c from
    ncalls,     \* number of method calls made
    last        \* the call that was made last, with what it returned or threw

mapVars == <<count, bindings, parents, origin>>
recordVars == <<recordCount, recordBindings, parent, mergedFrom>>
vars == <<count, bindings, parents, origin, invocations, recordCount, recordBindings,
          parent, mergedFrom, ncalls, last>>

Slots == 1..MaxContainers
Containers == 1..count

\* ---------------------------------------------------------------- lookup
\* The depth-first search of findBinding.  `path` holds the containers whose
\* findBinding call is on the call stack: the search is a function of the
\* container and the id alone, so entering a container that is already on the
\* stack recurses without end and the engine throws RangeError (stack overflow).
Overflow == "RangeError"

RECURSIVE findBinding(_, _, _), findInParents(_, _, _, _)
\* A search that asks the parents before the container's own map.
findBindingParentsFirst(c, id, path) ==
    IF c \in path THEN Overflow
    ELSE LET binding == findInParents(parents[c], 1, id, path \cup {c})
         IN  IF binding # Undefined THEN binding ELSE bindings[c][id]

\* A search that looks into the parents' own maps only.
findInParentsShallow(ps, i, id, path) ==
    IF i > Len(ps) THEN Undefined
    ELSE IF bindings[ps[i]][id] # Undefined THEN bindings[ps[i]][id]
    ELSE findInParents(ps, i + 1, id, path)

\* A search that walks the parents array from its end.
findInParentsReversed(ps, i, id, path) ==
    IF i > Len(ps) THEN Undefined
    ELSE LET binding == findBinding(ps[Len(ps) + 1 - i], id, path)
         IN  IF binding # Undefined THEN binding
             ELSE findInParents(ps, i + 1, id, path)

findBinding(c, id, path) ==
    IF c \in path THEN Overflow
    ELSE IF bindings[c][id] # Undefined THEN bindings[c][id]
    ELSE findInParents(parents[c], 1, id, path \cup {c})

findInParents(ps, i, id, path) ==
    IF i > Len(ps) THEN Undefined
    ELSE LET binding == findBinding(ps[i], id, path)
         IN  IF binding # Undefined THEN binding
             ELSE findInParents(ps, i + 1, id, path)

\* ------------------------------------------------------------------- get
\* What a call of get ends in: a returned value or a thrown error, with the
\* factories it invoked (in the order they were entered) and the invocation
\* counts afterwards.
Returned(v, inv, n) == [kind |-> "value", value |-> v, invoked |-> inv, counts |-> n]
Thrown(e, id, inv, n) == [kind |-> e, id |-> id, invoked |-> inv, counts |-> n]

\* A factory call: every invocation builds a new component object, told
\* apart by the serial number of the invocation.  The object keeps the
\* inject function the factory was given: the get of container c.
Component(f, serial, deps, c) ==
    [by |-> f, serial |-> serial, deps |-> deps, inject |-> c]

\* An error thrown by the factory f itself.
FactoryError(f, inv, n) == [kind |-> "Error", id |-> f, invoked |-> inv, counts |-> n]

\* get(id) on container c, with invocation counts n before the call, as the
\* depth-th get on the call stack.  The stack holds MaxDepth nested calls of
\* get; one more and the engine throws RangeError (stack overflow).
RECURSIVE get(_, _, _, _), construct(_, _, _, _, _, _, _)
\* The container whose map the search of findBinding takes the binding from.
RECURSIVE ownerOf(_, _, _), ownerInParents(_, _, _, _)
ownerOf(c, id, path) ==
    IF c \in path THEN 0
    ELSE IF bindings[c][id] # Undefined THEN c
    ELSE ownerInParents(parents[c], 1, id, path \cup {c})

ownerInParents(ps, i, id, path) ==
    IF i > Len(ps) THEN 0
    ELSE IF findBinding(ps[i], id, path) # Undefined THEN ownerOf(ps[i], id, path)
    ELSE ownerInParents(ps, i + 1, id, path)

\* A get that hands the factory the get of the container that holds it.
getInjectOfOwner(c, id, n, depth) ==
    LET binding == findBinding(c, id, {})
    IN  IF depth > MaxDepth \/ binding = Overflow THEN Thrown("RangeError", id, <<>>, n)
        ELSE IF binding = Undefined THEN Thrown("BindingNotFoundError", id, <<>>, n)
        ELSE LET n1 == [n EXCEPT ![binding] = @ + 1]
             IN  construct(ownerOf(c, id, {}), binding, 1, <<>>, <<binding>>, n1, depth)

\* A get that keeps the component of the previous call and hands it out again.
getCached(c, id, n, depth) ==
    LET binding == findBinding(c, id, {})
    IN  IF depth > MaxDepth \/ binding = Overflow THEN Thrown("RangeError", id, <<>>, n)
        ELSE IF binding = Undefined THEN Thrown("BindingNotFoundError", id, <<>>, n)
        ELSE IF /\ last.op = "get" /\ last.c = c /\ last.id = id
                /\ last.result.kind = "value" /\ last.result.value.by = binding
             THEN Returned(last.result.value, <<>>, n)
             ELSE LET n1 == [n EXCEPT ![binding] = @ + 1]
                  IN  construct(c, binding, 1, <<>>, <<binding>>, n1, depth)

\* A get that turns whatever the factory throws into BindingNotFoundError.
getWrappingErrors(c, id, n, depth) ==
    LET binding == findBinding(c, id, {})
    IN  IF depth > MaxDepth \/ binding = Overflow THEN Thrown("RangeError", id, <<>>, n)
        ELSE IF binding = Undefined THEN Thrown("BindingNotFoundError", id, <<>>, n)
        ELSE LET n1 == [n EXCEPT ![binding] = @ + 1]
                 r == construct(c, binding, 1, <<>>, <<binding>>, n1, depth)
             IN  IF r.kind = "Error"
                 THEN Thrown("BindingNotFoundError", id, r.invoked, r.counts)
                 ELSE r

\* A get that detects cycles: a chain of nested gets longer than the number of
\* ids requests some id again, and is refused with BindingNotFoundError.
getDetectingCycles(c, id, n, depth) ==
    LET binding == findBinding(c, id, {})
    IN  IF depth > Cardinality(Ids) THEN Thrown("BindingNotFoundError", id, <<>>, n)
        ELSE IF binding = Overflow THEN Thrown("RangeError", id, <<>>, n)
        ELSE IF binding = Undefined THEN Thrown("BindingNotFoundError", id, <<>>, n)
        ELSE LET n1 == [n EXCEPT ![binding] = @ + 1]
             IN  construct(c, binding, 1, <<>>, <<binding>>, n1, depth)

\* A factory call that recovers from a failed request: the factory goes on
\* with undefined in place of the value.
constructRecovering(c, f, i, deps, inv, n, depth) ==
    IF Throws(f) THEN FactoryError(f, inv, n)
    ELSE IF i > Len(Requests(f)) THEN Returned(Component(f, n[f], deps, c), inv, n)
    ELSE LET r == get(c, Requests(f)[i], n, depth + 1)
         IN  construct(c, f, i + 1,
                       Append(deps, IF r.kind = "value" THEN r.value ELSE Undefined),
                       inv \o r.invoked, r.counts, depth)

\* A factory call in which the requests of the object's method are made
\* while the object is constructed.
constructEager(c, f, i, deps, inv, n, depth) ==
    LET all == Requests(f) \o Deferred(f)
    IN  IF Throws(f) THEN FactoryError(f, inv, n)
        ELSE IF i > Len(all)
        THEN Returned(Component(f, n[f], deps, c), inv, n)
        ELSE LET r == get(c, all[i], n, depth + 1)
             IN  IF r.kind = "value"
                 THEN construct(c, f, i + 1, Append(deps, r.value), inv \o r.invoked,
                                r.counts, depth)
                 ELSE [r EXCEPT !.invoked = inv \o r.invoked]

get(c, id, n, depth) ==
    LET binding == findBinding(c, id, {})
    IN  IF depth > MaxDepth \/ binding = Overflow THEN Thrown("RangeError", id, <<>>, n)
        ELSE IF binding = Undefined THEN Thrown("BindingNotFoundError", id, <<>>, n)
        ELSE LET n1 == [n EXCEPT ![binding] = @ + 1]
             IN  construct(c, binding, 1, <<>>, <<binding>>, n1, depth)

\* The factory f running with inject = c.get: its i-th request onwards.  A
\* request is a get one level deeper on the stack.
construct(c, f, i, deps, inv, n, depth) ==
    IF Throws(f) THEN FactoryError(f, inv, n)
    ELSE IF i > Len(Requests(f))
    THEN Returned(Component(f, n[f], deps, c), inv, n)
    ELSE LET r == get(c, Requests(f)[i], n, depth + 1)
         IN  IF r.kind = "value"
             THEN construct(c, f, i + 1, Append(deps, r.value), inv \o r.invoked,
                            r.counts, depth)
             ELSE [r EXCEPT !.invoked = inv \o r.invoked]

\* A call of the method of the component v, made by the application that
\* holds v.  The method of an object whose factory defers a request makes it
\* now, through the inject the factory was given (no get is on the stack);
\* the method of an object built from a dependency calls the dependency's
\* method; any other method makes no request.
RECURSIVE callMethod(_, _), callDeferred(_, _, _, _)
callMethod(v, n) ==
    IF Deferred(v.by) # <<>> THEN callDeferred(v, 1, <<>>, n)
    ELSE IF v.deps # <<>> THEN callMethod(v.deps[1], n)
    ELSE Returned(v, <<>>, n)

\* An inject that looks only into the mapping of the registry itself.
callDeferredLocalOnly(v, i, inv, n) ==
    LET id == Deferred(v.by)[i]
        binding == bindings[v.inject][id]
    IN  IF binding = Undefined THEN Thrown("BindingNotFoundError", id, inv, n)
        ELSE construct(v.inject, binding, 1, <<>>, inv \o <<binding>>,
                       [n EXCEPT ![binding] = @ + 1], 1)

callDeferred(v, i, inv, n) ==
    LET r == get(v.inject, Deferred(v.by)[i], n, 1)
    IN  IF r.kind # "value" THEN [r EXCEPT !.invoked = inv \o r.invoked]
        ELSE IF i = Len(Deferred(v.by)) THEN [r EXCEPT !.invoked = inv \o r.invoked]
        ELSE callDeferred(v, i + 1, inv \o r.invoked, r.counts)

\* --------------------------------------------------------- isRegistered
\* isRegisteredHere(id)
isRegisteredHere(c, id) == bindings[c][id] # Undefined

\* isRegistered(id): this container, then parents.some(...), recursively.  As
\* in findBinding, entering a container that is on the call stack recurses
\* without end (RangeError); a true found earlier ends the search before that.
\* The outcome is "true", "false" or "RangeError".
RECURSIVE isRegistered(_, _, _), someParent(_, _, _, _)
\* An isRegistered that does not ask the parents.
isRegisteredWithoutParents(c, id, path) ==
    IF isRegisteredHere(c, id) THEN "true" ELSE "false"

isRegistered(c, id, path) ==
    IF c \in path THEN Overflow
    ELSE IF isRegisteredHere(c, id) THEN "true"
    ELSE someParent(parents[c], 1, id, path \cup {c})

someParent(ps, i, id, path) ==
    IF i > Len(ps) THEN "false"
    ELSE LET r == isRegistered(ps[i], id, path)
         IN  IF r # "false" THEN r ELSE someParent(ps, i + 1, id, path)

\* ------------------------------------------- plain-object containers
\* The container that keeps its bindings in a plain object,
\* bindings: Record<ID, AnyBindingDeclaration> = {}, has one optional parent
\* and the static merge.  A bindings object is modelled by its own property
\* keys in creation order, their values, and its prototype.
ObjectPrototype == "Object.prototype"
NoParent == 0

\* {}
EmptyObject ==
    [keys |-> <<>>, value |-> [id \in PropertyIds |-> Undefined], proto |-> ObjectPrototype]

hasOwnProperty(obj, id) == \E k \in 1..Len(obj.keys) : obj.keys[k] = id

\* obj[id] = value.  "__proto__" is the accessor inherited from
\* Object.prototype: its setter makes the value the prototype of obj and
\* creates no own property.  Any other id becomes an own property.
propertySet(obj, id, value) ==
    IF id = "__proto__" THEN [obj EXCEPT !.proto = value]
    ELSE IF hasOwnProperty(obj, id) THEN [obj EXCEPT !.value[id] = value]
    ELSE [obj EXCEPT !.keys = Append(@, id), !.value[id] = value]

\* The built-in functions found under the name "toString".
ObjectToString == "Object.prototype.toString"
FunctionToString == "Function.prototype.toString"

\* What an object whose prototype is proto inherits under id: "toString" is
\* the method of Object.prototype, or that of Function.prototype when the
\* prototype is a factory function; nothing is inherited under the other ids.
inherited(proto, id) ==
    IF id # "toString" THEN Undefined
    ELSE IF proto = ObjectPrototype THEN ObjectToString
    ELSE FunctionToString

\* obj[id].  "__proto__" reads the prototype; any other id is an own property
\* or else what the prototype chain has under that name.
propertyGet(obj, id) ==
    IF id = "__proto__" THEN obj.proto
    ELSE IF hasOwnProperty(obj, id) THEN obj.value[id]
    ELSE inherited(obj.proto, id)

\* typeof v === "function"
isFunction(v) == v \in RecordFactories \cup {ObjectToString, FunctionToString}

\* A built-in called as a dependency, binding(context), with no receiver:
\* Object.prototype.toString returns "[object Undefined]" and
\* Function.prototype.toString throws a TypeError.
callBuiltin(fn, id, n) ==
    IF fn = ObjectToString THEN Returned("[object Undefined]", <<>>, n)
    ELSE Thrown("TypeError", id, <<>>, n)

\* getBindingIds(): own symbols, then own names.
getBindingIds(obj) ==
    SelectSeq(obj.keys, isSymbol) \o SelectSeq(obj.keys, LAMBDA id : ~isSymbol(id))

\* _get(id) on container c, in the heap of bindings objects B and parents P.
RECURSIVE get_(_, _, _, _)
get_(B, P, c, id) ==
    LET own == propertyGet(B[c], id)
    IN  IF own # Undefined THEN own
        ELSE IF P[c] = NoParent THEN Undefined
        ELSE get_(B, P, P[c], id)

\* get(id) on container c, with invocation counts n before the call.
RECURSIVE recordGet(_, _, _, _, _), recordConstruct(_, _, _, _, _, _, _, _)
recordGet(B, P, c, id, n) ==
    LET binding == get_(B, P, c, id)
    IN  IF ~isFunction(binding)
        THEN Thrown("BindingNotFoundError", id, <<>>, n)
        ELSE IF binding \notin RecordFactories THEN callBuiltin(binding, id, n)
        ELSE LET n1 == [n EXCEPT ![binding] = @ + 1]
             IN  recordConstruct(B, P, c, binding, 1, <<>>, <<binding>>, n1)

\* The factory f running with the context { get: c.get }.
recordConstruct(B, P, c, f, i, deps, inv, n) ==
    IF i > Len(RecordRequests(f))
    THEN Returned(Component(f, n[f], deps, c), inv, n)
    ELSE LET r == recordGet(B, P, c, RecordRequests(f)[i], n)
         IN  IF r.kind = "value"
             THEN recordConstruct(B, P, c, f, i + 1, Append(deps, r.value),
                                  inv \o r.invoked, r.counts)
             ELSE [r EXCEPT !.invoked = inv \o r.invoked]

\* The inner forEach of merge: bind the ids of `from`, the j-th onwards.
RECURSIVE copyBindings(_, _, _, _)
copyBindings(obj, from, ids, j) ==
    IF j > Len(ids) THEN obj
    ELSE copyBindings(propertySet(obj, ids[j], propertyGet(from, ids[j])), from, ids, j + 1)

\* A merge that also copies what the ancestors of each container bind.
RECURSIVE copyChain(_, _, _)
copyChain(B, obj, c) ==
    LET base == IF parent[c] = NoParent THEN obj ELSE copyChain(B, obj, parent[c])
    IN  copyBindings(base, B[c], getBindingIds(B[c]), 1)

RECURSIVE mergeBindings(_, _, _, _)
mergeBindingsWithAncestors(B, obj, containers, i) ==
    IF i > Len(containers) THEN obj
    ELSE mergeBindings(B, copyChain(B, obj, containers[i]), containers, i + 1)

\* The outer forEach of merge: the i-th container onwards.
mergeBindings(B, obj, containers, i) ==
    IF i > Len(containers) THEN obj
    ELSE mergeBindings(B,
            copyBindings(obj, B[containers[i]], getBindingIds(B[containers[i]]), 1),
            containers, i + 1)

\* A merge whose result keeps looking into the last container it was given.
mergeKeepingParent(B, containers) ==
    [bindings |-> mergeBindings(B, EmptyObject, containers, 1),
     parent |-> IF containers = <<>> THEN NoParent ELSE containers[Len(containers)]]

\* Container.merge(...containers): the container it returns.
merge(B, containers) ==
    [bindings |-> mergeBindings(B, EmptyObject, containers, 1), parent |-> NoParent]

\* Object.entries(obj): the keys of the own enumerable string-keyed
\* properties, in the order they were created.  Symbol keys are not listed.
entries(obj) == SelectSeq(obj.keys, LAMBDA id : ~isSymbol(id))

\* clone(): a new container on which every entry of the dependencies object is
\* registered.
clone(B, c) == copyBindings(EmptyObject, B[c], entries(B[c]), 1)

\* get(id) of the container with clone(): the dependencies object is read
\* directly, only undefined counts as missing, and whatever else is found is
\* called with the context { get: c.get }.
RECURSIVE dependencyGet(_, _, _, _), dependencyConstruct(_, _, _, _, _, _, _)
dependencyGet(B, c, id, n) ==
    LET dependency == propertyGet(B[c], id)
    IN  IF dependency = Undefined THEN Thrown("DependencyNotFoundError", id, <<>>, n)
        ELSE IF ~isFunction(dependency) THEN Thrown("TypeError", id, <<>>, n)
        ELSE IF dependency \notin RecordFactories THEN callBuiltin(dependency, id, n)
        ELSE LET n1 == [n EXCEPT ![dependency] = @ + 1]
             IN  dependencyConstruct(B, c, dependency, 1, <<>>, <<dependency>>, n1)

dependencyConstruct(B, c, f, i, deps, inv, n) ==
    IF i > Len(RecordRequests(f))
    THEN Returned(Component(f, n[f], deps, c), inv, n)
    ELSE LET r == dependencyGet(B, c, RecordRequests(f)[i], n)
         IN  IF r.kind = "value"
             THEN dependencyConstruct(B, c, f, i + 1, Append(deps, r.value),
                                      inv \o r.invoked, r.counts)
             ELSE [r EXCEPT !.invoked = inv \o r.invoked]

RecordSlots == 1..MaxContainers
RecordContainers == 1..recordCount

InitRecords ==
    /\ recordCount = 1
    /\ recordBindings = [c \in RecordSlots |-> EmptyObject]
    /\ parent = [c \in RecordSlots |-> NoParent]
    /\ mergedFrom = [c \in RecordSlots |-> <<>>]

\* ------------------------------------------------------------ operations
NoCall == [op |-> "none"]

\* The application has constructed its root container.
Init ==
    /\ count = 1
    /\ bindings = [c \in Slots |-> [id \in Ids |-> Undefined]]
    /\ parents = [c \in Slots |-> <<>>]
    /\ origin = [c \in Slots |-> 0]
    /\ invocations = [f \in Factories \cup RecordFactories |-> 0]
    /\ InitRecords
    /\ ncalls = 0
    /\ last = NoCall

\* new Container()
NewContainer ==
    /\ ncalls < MaxCalls
    /\ count < MaxContainers
    /\ count' = count + 1
    /\ ncalls' = ncalls + 1
    /\ last' = [op |-> "new", ret |-> count + 1]
    /\ UNCHANGED <<bindings, parents, origin, invocations>>
    /\ UNCHANGED recordVars

\* A register that keeps the factory an id is bound to already.
RegisterIfAbsent(c, id, f) ==
    /\ ncalls < MaxCalls
    /\ bindings' = [bindings EXCEPT ![c][id] = IF @ = Undefined THEN f ELSE @]
    /\ ncalls' = ncalls + 1
    /\ last' = [op |-> "register", c |-> c, id |-> id, f |-> f, ret |-> c]
    /\ UNCHANGED <<count, parents, origin, invocations>>
    /\ UNCHANGED recordVars

\* A register that writes the binding into the receiver's parents as well.
RegisterInParents(c, id, f) ==
    /\ ncalls < MaxCalls
    /\ bindings' = [d \in Slots |->
                      IF d = c \/ (\E k \in 1..Len(parents[c]) : parents[c][k] = d)
                      THEN [bindings[d] EXCEPT ![id] = f]
                      ELSE bindings[d]]
    /\ ncalls' = ncalls + 1
    /\ last' = [op |-> "register", c |-> c, id |-> id, f |-> f, ret |-> c]
    /\ UNCHANGED <<count, parents, origin, invocations>>
    /\ UNCHANGED recordVars

\* register(id, value)
Register(c, id, f) ==
    /\ ncalls < MaxCalls
    /\ bindings' = [bindings EXCEPT ![c][id] = f]
    /\ ncalls' = ncalls + 1
    /\ last' = [op |-> "register", c |-> c, id |-> id, f |-> f, ret |-> c]
    /\ UNCHANGED <<count, parents, origin, invocations>>
    /\ UNCHANGED recordVars

\* remove(id)
Remove(c, id) ==
    /\ ncalls < MaxCalls
    /\ bindings' = [bindings EXCEPT ![c][id] = Undefined]
    /\ ncalls' = ncalls + 1
    /\ last' = [op |-> "remove", c |-> c, id |-> id, ret |-> c]
    /\ UNCHANGED <<count, parents, origin, invocations>>
    /\ UNCHANGED recordVars

\* An includes that never finds the container.
includesNothing(ps, c) == FALSE

\* this.parents.includes(container)
includes(ps, c) == \E k \in 1..Len(ps) : ps[k] = c

\* The forEach of extend, from the i-th argument on: push every container
\* that the parents array does not include yet.
RECURSIVE pushUnique(_, _, _)
\* An extend that puts the new parents in front (unshift in place of push).
unshiftUnique(ps, args, i) ==
    IF i > Len(args) THEN ps
    ELSE IF includes(ps, args[i])
         THEN pushUnique(ps, args, i + 1)
         ELSE pushUnique(<<args[i]>> \o ps, args, i + 1)

pushUnique(ps, args, i) ==
    IF i > Len(args) THEN ps
    ELSE IF includes(ps, args[i])
         THEN pushUnique(ps, args, i + 1)
         ELSE pushUnique(Append(ps, args[i]), args, i + 1)

\* extend(...containers)
Extend(c, args) ==
    /\ ncalls + Len(args) <= MaxCalls
    /\ parents' = [parents EXCEPT ![c] = pushUnique(parents[c], args, 1)]
    /\ ncalls' = ncalls + Len(args)
    /\ last' = [op |-> "extend", c |-> c, args |-> args, before |-> parents[c],
                ret |-> c]
    /\ UNCHANGED <<count, bindings, origin, invocations>>
    /\ UNCHANGED recordVars

\* A createChild that hands the child a copy of the receiver's mapping.
CreateChildCopying(c) ==
    /\ ncalls < MaxCalls
    /\ count < MaxContainers
    /\ count' = count + 1
    /\ parents' = [parents EXCEPT ![count + 1] = pushUnique(<<>>, <<c>>, 1)]
    /\ bindings' = [bindings EXCEPT ![count + 1] = bindings[c]]
    /\ ncalls' = ncalls + 1
    /\ origin' = [origin EXCEPT ![count + 1] = c]
    /\ last' = [op |-> "createChild", c |-> c, ret |-> count + 1]
    /\ UNCHANGED invocations
    /\ UNCHANGED recordVars

\* A createChild that also makes the child a parent of the receiver.
CreateChildLinkedBack(c) ==
    /\ ncalls < MaxCalls
    /\ count < MaxContainers
    /\ count' = count + 1
    /\ parents' = [parents EXCEPT ![count + 1] = pushUnique(<<>>, <<c>>, 1),
                                  ![c] = pushUnique(@, <<count + 1>>, 1)]
    /\ ncalls' = ncalls + 1
    /\ origin' = [origin EXCEPT ![count + 1] = c]
    /\ last' = [op |-> "createChild", c |-> c, ret |-> count + 1]
    /\ UNCHANGED <<bindings, invocations>>
    /\ UNCHANGED recordVars

\* createChild(): a new container, extended with this one.
CreateChild(c) ==
    /\ ncalls < MaxCalls
    /\ count < MaxContainers
    /\ count' = count + 1
    /\ parents' = [parents EXCEPT ![count + 1] = pushUnique(<<>>, <<c>>, 1)]
    /\ ncalls' = ncalls + 1
    /\ origin' = [origin EXCEPT ![count + 1] = c]
    /\ last' = [op |-> "createChild", c |-> c, ret |-> count + 1]
    /\ UNCHANGED <<bindings, invocations>>
    /\ UNCHANGED recordVars

\* A get that keeps the factory it found in the container's own map.
GetKeepingBinding(c, id) ==
    /\ ncalls < MaxCalls
    /\ LET r == get(c, id, invocations, 1)
       IN  /\ invocations' = r.counts
           /\ last' = [op |-> "get", c |-> c, id |-> id, result |-> r]
    /\ bindings' = IF findBinding(c, id, {}) \in Factories
                   THEN [bindings EXCEPT ![c][id] = findBinding(c, id, {})]
                   ELSE bindings
    /\ ncalls' = ncalls + 1
    /\ UNCHANGED <<count, parents, origin>>
    /\ UNCHANGED recordVars

\* get(id)
Get(c, id) ==
    /\ ncalls < MaxCalls
    /\ LET r == get(c, id, invocations, 1)
       IN  /\ invocations' = r.counts
           /\ last' = [op |-> "get", c |-> c, id |-> id, result |-> r]
    /\ ncalls' = ncalls + 1
    /\ UNCHANGED <<count, bindings, parents, origin>>
    /\ UNCHANGED recordVars

\* isRegistered(id)
IsRegistered(c, id) ==
    /\ ncalls < MaxCalls
    /\ last' = [op |-> "isRegistered", c |-> c, id |-> id,
                result |-> isRegistered(c, id, {})]
    /\ ncalls' = ncalls + 1
    /\ UNCHANGED <<count, bindings, parents, origin, invocations>>
    /\ UNCHANGED recordVars

Next ==
    \/ NewContainer
    \/ \E c \in Containers, id \in Ids : \E f \in FactoriesFor(id) : Register(c, id, f)
    \/ \E c \in Containers, id \in Ids : Remove(c, id)
    \/ \E c \in Containers, args \in ArgLists(Containers) : Extend(c, args)
    \/ \E c \in Containers : CreateChild(c)
    \/ \E c \in Containers, id \in Ids : Get(c, id)
    \/ \E c \in Containers, id \in Ids : IsRegistered(c, id)

Spec == Init /\ [][Next]_vars

\* register(id, value) takes any factory: the factories an application that
\* wires components to each other, lazily or eagerly, hands to it.
WiredFactoriesFor(id) ==
    IF id = "x" THEN {"fa", "needY", "boom"} ELSE {"needX", "laterX", "boom"}

\* The component the application holds: the one the last get returned, or
\* the one it has kept since (`object`).
Holds == (last.op = "get" /\ last.result.kind = "value") \/ "object" \in DOMAIN last

Held == IF "object" \in DOMAIN last THEN last.object ELSE last.result.value

\* component.method()
CallMethod ==
    /\ ncalls < MaxCalls
    /\ Holds
    /\ LET r == callMethod(Held, invocations)
       IN  /\ invocations' = r.counts
           /\ last' = [op |-> "call", object |-> Held, result |-> r]
    /\ ncalls' = ncalls + 1
    /\ UNCHANGED <<count, bindings, parents, origin>>
    /\ UNCHANGED recordVars

NextWired ==
    \/ \E c \in Containers, id \in Ids : \E f \in WiredFactoriesFor(id) : Register(c, id, f)
    \/ \E c \in Containers : CreateChild(c)
    \/ \E c \in Containers, id \in Ids : Get(c, id)
    \/ CallMethod

\* Components that request each other and factories that throw.
SpecWired == Init /\ [][NextWired]_vars

\* The same operations, started by an application with two root containers.
InitTwoRoots ==
    /\ count = 2
    /\ bindings = [c \in Slots |-> [id \in Ids |-> Undefined]]
    /\ parents = [c \in Slots |-> <<>>]
    /\ origin = [c \in Slots |-> 0]
    /\ invocations = [f \in Factories \cup RecordFactories |-> 0]
    /\ InitRecords
    /\ ncalls = 0
    /\ last = NoCall

\* The calls that build a hierarchy and look an id up in it.
NextLookup ==
    \/ \E c \in Containers, id \in Ids : \E f \in FactoriesFor(id) : Register(c, id, f)
    \/ \E c \in Containers, args \in ArgLists(Containers) : Extend(c, args)
    \/ \E c \in Containers : CreateChild(c)
    \/ \E c \in Containers, id \in Ids : Get(c, id)

SpecTwoRoots == InitTwoRoots /\ [][NextLookup]_vars

\* register, remove and extend called by an application that keeps the
\* object an earlier get returned.
RegisterHolding(c, id, f) ==
    /\ ncalls < MaxCalls
    /\ Holds
    /\ bindings' = [bindings EXCEPT ![c][id] = f]
    /\ ncalls' = ncalls + 1
    /\ last' = [op |-> "register", c |-> c, id |-> id, f |-> f, ret |-> c,
                object |-> Held]
    /\ UNCHANGED <<count, parents, origin, invocations>>
    /\ UNCHANGED recordVars

RemoveHolding(c, id) ==
    /\ ncalls < MaxCalls
    /\ Holds
    /\ bindings' = [bindings EXCEPT ![c][id] = Undefined]
    /\ ncalls' = ncalls + 1
    /\ last' = [op |-> "remove", c |-> c, id |-> id, ret |-> c, object |-> Held]
    /\ UNCHANGED <<count, parents, origin, invocations>>
    /\ UNCHANGED recordVars

ExtendHolding(c, args) ==
    /\ ncalls + Len(args) <= MaxCalls
    /\ Holds
    /\ parents' = [parents EXCEPT ![c] = pushUnique(parents[c], args, 1)]
    /\ ncalls' = ncalls + Len(args)
    /\ last' = [op |-> "extend", c |-> c, args |-> args, before |-> parents[c],
                ret |-> c, object |-> Held]
    /\ UNCHANGED <<count, bindings, origin, invocations>>
    /\ UNCHANGED recordVars

\* The factories of an application whose component for "y" keeps inject and
\* requests "x" in its method.
DeferringFactoriesFor(id) == IF id = "x" THEN {"fa", "fb"} ELSE {"laterX"}

NextDeferred ==
    \/ \E c \in Containers, id \in Ids : \E f \in DeferringFactoriesFor(id) : Register(c, id, f)
    \/ \E c \in Containers, id \in Ids : Get(c, id)
    \/ \E c \in Containers, id \in Ids : \E f \in DeferringFactoriesFor(id) :
            RegisterHolding(c, id, f)
    \/ \E c \in Containers, id \in Ids : RemoveHolding(c, id)
    \/ \E c \in Containers, a \in Containers : ExtendHolding(c, <<a>>)
    \/ CallMethod

\* Two root containers, an object kept from a get, and the registries changed
\* before its method is called.
SpecDeferred == InitTwoRoots /\ [][NextDeferred]_vars

\* new Container()
NewRecordContainer ==
    /\ ncalls < MaxRecordCalls
    /\ recordCount < MaxContainers
    /\ recordCount' = recordCount + 1
    /\ ncalls' = ncalls + 1
    /\ last' = [op |-> "new", ret |-> recordCount + 1]
    /\ UNCHANGED <<recordBindings, parent, mergedFrom, invocations>>
    /\ UNCHANGED mapVars

\* bind(id, value)
Bind(c, id, f) ==
    /\ ncalls < MaxRecordCalls
    /\ recordBindings' = [recordBindings EXCEPT ![c] = propertySet(@, id, f)]
    /\ ncalls' = ncalls + 1
    /\ last' = [op |-> "bind", c |-> c, id |-> id, f |-> f, ret |-> c]
    /\ UNCHANGED <<recordCount, parent, mergedFrom, invocations>>
    /\ UNCHANGED mapVars

\* get(id)
RecordGet(c, id) ==
    /\ ncalls < MaxRecordCalls
    /\ LET r == recordGet(recordBindings, parent, c, id, invocations)
       IN  /\ invocations' = r.counts
           /\ last' = [op |-> "get", c |-> c, id |-> id, result |-> r]
    /\ ncalls' = ncalls + 1
    /\ UNCHANGED recordVars
    /\ UNCHANGED mapVars

\* createChild(): a new container whose parent is this one.
RecordCreateChild(c) ==
    /\ ncalls < MaxRecordCalls
    /\ recordCount < MaxContainers
    /\ recordCount' = recordCount + 1
    /\ parent' = [parent EXCEPT ![recordCount + 1] = c]
    /\ ncalls' = ncalls + 1
    /\ last' = [op |-> "createChild", c |-> c, ret |-> recordCount + 1]
    /\ UNCHANGED <<recordBindings, mergedFrom, invocations>>
    /\ UNCHANGED mapVars

\* Container.merge(...containers)
Merge(containers) ==
    /\ ncalls < MaxRecordCalls
    /\ recordCount < MaxContainers
    /\ recordCount' = recordCount + 1
    /\ LET merged == merge(recordBindings, containers)
       IN  /\ recordBindings' = [recordBindings EXCEPT ![recordCount + 1] = merged.bindings]
           /\ parent' = [parent EXCEPT ![recordCount + 1] = merged.parent]
    /\ mergedFrom' = [mergedFrom EXCEPT ![recordCount + 1] = containers]
    /\ ncalls' = ncalls + 1
    /\ last' = [op |-> "merge", containers |-> containers, ret |-> recordCount + 1]
    /\ UNCHANGED invocations
    /\ UNCHANGED mapVars

NextMerge ==
    \/ NewRecordContainer
    \/ \E c \in RecordContainers, id \in RecordIds :
            \E f \in RecordFactoriesFor(id) : Bind(c, id, f)
    \/ \E c \in RecordContainers, id \in RecordIds : RecordGet(c, id)
    \/ \E c \in RecordContainers : RecordCreateChild(c)
    \/ \E containers \in {<<>>} \cup ArgLists(RecordContainers) : Merge(containers)

\* The plain-object containers of an application that starts with one of them.
SpecMerge == Init /\ [][NextMerge]_vars

\* register(id, dependency) of the container with clone(): the assignment
\* this.dependencies[id] = dependency that bind makes.
RegisterDependency(c, id, f) == Bind(c, id, f)

\* clone()
Clone(c) ==
    /\ ncalls < MaxRecordCalls
    /\ recordCount < MaxContainers
    /\ recordCount' = recordCount + 1
    /\ recordBindings' = [recordBindings EXCEPT ![recordCount + 1] = clone(recordBindings, c)]
    /\ mergedFrom' = [mergedFrom EXCEPT ![recordCount + 1] = <<c>>]
    /\ ncalls' = ncalls + 1
    /\ last' = [op |-> "clone", c |-> c, ret |-> recordCount + 1]
    /\ UNCHANGED <<parent, invocations>>
    /\ UNCHANGED mapVars

\* get(id) of the container with clone()
DependencyGet(c, id) ==
    /\ ncalls < MaxRecordCalls
    /\ LET r == dependencyGet(recordBindings, c, id, invocations)
       IN  /\ invocations' = r.counts
           /\ last' = [op |-> "get", c |-> c, id |-> id, result |-> r]
    /\ ncalls' = ncalls + 1
    /\ UNCHANGED recordVars
    /\ UNCHANGED mapVars

NextClone ==
    \/ \E c \in RecordContainers, id \in PropertyIds :
            \E f \in RecordFactoriesFor(id) : RegisterDependency(c, id, f)
    \/ \E c \in RecordContainers : Clone(c)
    \/ \E c \in RecordContainers, id \in PropertyIds : DependencyGet(c, id)

\* The containers with clone(), which have no parent.
SpecClone == Init /\ [][NextClone]_vars

NextInherited ==
    \/ \E c \in RecordContainers, id \in PropertyIds :
            \E f \in RecordFactoriesFor(id) : Bind(c, id, f)
    \/ \E c \in RecordContainers, id \in PropertyIds : RecordGet(c, id)
    \/ \E c \in RecordContainers : RecordCreateChild(c)

\* The plain-object containers asked for ids that name what every plain
\* object inherits.
SpecInherited == Init /\ [][NextInherited]_vars

\* isRegisteredHere(id)
IsRegisteredHere(c, id) ==
    /\ ncalls < MaxCalls
    /\ last' = [op |-> "isRegisteredHere", c |-> c, id |-> id,
                result |-> IF isRegisteredHere(c, id) THEN "true" ELSE "false"]
    /\ ncalls' = ncalls + 1
    /\ UNCHANGED <<count, bindings, parents, origin, invocations>>
    /\ UNCHANGED recordVars

NextReads ==
    \/ \E c \in Containers, id \in Ids : \E f \in FactoriesFor(id) : Register(c, id, f)
    \/ \E c \in Containers : CreateChild(c)
    \/ \E c \in Containers, a \in Containers : Extend(c, <<a>>)
    \/ \E c \in Containers, id \in Ids : Get(c, id)
    \/ \E c \in Containers, id \in Ids : IsRegistered(c, id)
    \/ \E c \in Containers, id \in Ids : IsRegisteredHere(c, id)

\* A hierarchy that is built and then read by get, isRegistered and
\* isRegisteredHere.
SpecReads == Init /\ [][NextReads]_vars

\* ------------------------------------------- factories that call back
\* Factories that call a method of the root container 1 while they run, before
\* they request anything: "removesY" removes the binding of "y", "rebindsX"
\* registers "fb" for "x" and then requests "x", "extendsRoot" extends the
\* root with container 2 and then requests "x".
EffectFactories == {"removesY", "rebindsX", "extendsRoot"}

EffectRequests(f) ==
    IF f \in {"rebindsX", "extendsRoot"} THEN <<"x">>
    ELSE IF f \in EffectFactories THEN <<>>
    ELSE Requests(f)

EffectFactoriesFor(id) == IF id = "x" THEN {"fa", "fb"} ELSE EffectFactories

\* The registries as a running factory finds and leaves them.
Heap == [bindings |-> bindings, parents |-> parents]

\* What the body of the factory does to the registries before its requests.
applyEffects(H, f) ==
    IF f = "removesY" THEN [H EXCEPT !.bindings[1]["y"] = Undefined]
    ELSE IF f = "rebindsX" THEN [H EXCEPT !.bindings[1]["x"] = "fb"]
    ELSE IF f = "extendsRoot" THEN [H EXCEPT !.parents[1] = pushUnique(@, <<2>>, 1)]
    ELSE H

\* findBinding in the registries H.
RECURSIVE findBindingIn(_, _, _, _), findInParentsIn(_, _, _, _, _)
findBindingIn(H, c, id, path) ==
    IF c \in path THEN Overflow
    ELSE IF H.bindings[c][id] # Undefined THEN H.bindings[c][id]
    ELSE findInParentsIn(H, H.parents[c], 1, id, path \cup {c})

findInParentsIn(H, ps, i, id, path) ==
    IF i > Len(ps) THEN Undefined
    ELSE LET binding == findBindingIn(H, ps[i], id, path)
         IN  IF binding # Undefined THEN binding
             ELSE findInParentsIn(H, ps, i + 1, id, path)

\* The outcome of a get together with the registries it leaves.
In(r, H) == [kind |-> r.kind, id |-> IF r.kind = "value" THEN Undefined ELSE r.id,
             value |-> IF r.kind = "value" THEN r.value ELSE Undefined,
             invoked |-> r.invoked, counts |-> r.counts, heap |-> H]

RECURSIVE getIn(_, _, _, _, _), constructIn(_, _, _, _, _, _, _, _)
\* A get that reads the binding again when the factory has returned, and
\* throws if the id is no longer bound to it.
getInReadingAgain(H, c, id, n, depth) ==
    LET binding == findBindingIn(H, c, id, {})
    IN  IF depth > MaxDepth \/ binding = Overflow
        THEN In(Thrown("RangeError", id, <<>>, n), H)
        ELSE IF binding = Undefined
        THEN In(Thrown("BindingNotFoundError", id, <<>>, n), H)
        ELSE LET n1 == [n EXCEPT ![binding] = @ + 1]
                 r == constructIn(applyEffects(H, binding), c, binding, 1, <<>>,
                                  <<binding>>, n1, depth)
             IN  IF r.kind = "value" /\ findBindingIn(r.heap, c, id, {}) # binding
                 THEN In(Thrown("BindingNotFoundError", id, r.invoked, r.counts), r.heap)
                 ELSE r

\* get(id) on container c in the registries H: findBinding returns before the
\* factory is called, and the factory runs in what its own calls leave.
getIn(H, c, id, n, depth) ==
    LET binding == findBindingIn(H, c, id, {})
    IN  IF depth > MaxDepth \/ binding = Overflow
        THEN In(Thrown("RangeError", id, <<>>, n), H)
        ELSE IF binding = Undefined
        THEN In(Thrown("BindingNotFoundError", id, <<>>, n), H)
        ELSE LET n1 == [n EXCEPT ![binding] = @ + 1]
             IN  constructIn(applyEffects(H, binding), c, binding, 1, <<>>,
                             <<binding>>, n1, depth)

constructIn(H, c, f, i, deps, inv, n, depth) ==
    IF i > Len(EffectRequests(f))
    THEN In(Returned(Component(f, n[f], deps, c), inv, n), H)
    ELSE LET r == getIn(H, c, EffectRequests(f)[i], n, depth + 1)
         IN  IF r.kind = "value"
             THEN constructIn(r.heap, c, f, i + 1, Append(deps, r.value),
                              inv \o r.invoked, r.counts, depth)
             ELSE [r EXCEPT !.invoked = inv \o r.invoked]

\* get(id), with factories that call back into the registries.
GetWithEffects(c, id) ==
    /\ ncalls < MaxCalls
    /\ LET r == getIn(Heap, c, id, invocations, 1)
       IN  /\ invocations' = r.counts
           /\ bindings' = r.heap.bindings
           /\ parents' = r.heap.parents
           /\ last' = [op |-> "get", c |-> c, id |-> id, result |-> r]
    /\ ncalls' = ncalls + 1
    /\ UNCHANGED <<count, origin>>
    /\ UNCHANGED recordVars

InitEffects ==
    /\ count = 2
    /\ bindings = [c \in Slots |-> [id \in Ids |-> Undefined]]
    /\ parents = [c \in Slots |-> <<>>]
    /\ origin = [c \in Slots |-> 0]
    /\ invocations = [f \in Factories \cup RecordFactories \cup EffectFactories |-> 0]
    /\ InitRecords
    /\ ncalls = 0
    /\ last = NoCall

NextEffects ==
    \/ \E c \in Containers, id \in Ids : \E f \in EffectFactoriesFor(id) : Register(c, id, f)
    \/ \E c \in Containers : CreateChild(c)
    \/ \E c \in Containers, id \in Ids : GetWithEffects(c, id)

\* Two root containers and factories that change the registries while a get
\* is running.
SpecEffects == InitEffects /\ [][NextEffects]_vars

\* --------------------------------------------------------------- errors
\* Ids handed to the error constructor: a string, or a symbol with its
\* description.
Texts == {"banana", "aliens", "x", "y", "", "Symbol(aliens)", "toString", "a b"}

ErrorIds == [type : {"string", "symbol"}, text : Texts]

StringId(s) == [type |-> "string", text |-> s]

\* A String that gives the description of a symbol (Symbol.prototype.description).
StringDescription(id) == id.text

\* String(id): the string itself, and SymbolDescriptiveString for a symbol.
String(id) ==
    IF id.type = "symbol" THEN "Symbol(" \o id.text \o ")" ELSE id.text

\* new BindingNotFoundError(id): super(`Binding "${String(id)}" not found!`).
\* The object is an Error whose prototype chain is that of the subclass.
BindingNotFoundError(id) ==
    [message |-> "Binding \"" \o String(id) \o "\" not found!",
     chain |-> <<"BindingNotFoundError", "Error", "Object">>]

instanceof(e, class) == \E k \in 1..Len(e.chain) : e.chain[k] = class

\* new BindingNotFoundError(id), as the tests construct it.
NewBindingNotFoundError(id) ==
    /\ ncalls < MaxCalls
    /\ ncalls' = ncalls + 1
    /\ last' = [op |-> "new BindingNotFoundError", id |-> id,
                error |-> BindingNotFoundError(id)]
    /\ UNCHANGED <<count, bindings, parents, origin, invocations>>
    /\ UNCHANGED recordVars

\* catch (error) around a get that threw BindingNotFoundError: the error is
\* the one get built from the id it was asked for.
Catch ==
    /\ ncalls < MaxCalls
    /\ last.op = "get"
    /\ last.result.kind = "BindingNotFoundError"
    /\ ncalls' = ncalls + 1
    /\ last' = [op |-> "catch", id |-> StringId(last.result.id),
                error |-> BindingNotFoundError(StringId(last.result.id))]
    /\ UNCHANGED <<count, bindings, parents, origin, invocations>>
    /\ UNCHANGED recordVars

NextErrors ==
    \/ \E c \in Containers, id \in Ids : \E f \in WiredFactoriesFor(id) : Register(c, id, f)
    \/ \E c \in Containers, id \in Ids : Get(c, id)
    \/ \E id \in ErrorIds : NewBindingNotFoundError(id)
    \/ Catch

\* Errors built by the application and errors caught from get.
SpecErrors == Init /\ [][NextErrors]_vars

\* ------------------------------------------------------------ properties
Range(seq) == {seq[k] : k \in 1..Len(seq)}

\* The containers that can be reached from those of S through parents lists.
RECURSIVE ReachFrom(_)
ReachFrom(S) ==
    LET T == S \cup UNION {Range(parents[d]) : d \in S}
    IN  IF T = S THEN S ELSE ReachFrom(T)

Ancestors(c) == ReachFrom(Range(parents[c]))

IsGet == last.op = "get"

\* The invocation counts before the call that `last` records.
CountsBefore ==
    [f \in DOMAIN invocations |->
        invocations[f]
        - Cardinality({k \in 1..Len(last.result.invoked) : last.result.invoked[k] = f})]

\* C1: when the id is bound neither in the container nor in any container
\* reachable through parents lists, get(id) throws BindingNotFoundError for
\* exactly that id and invokes no factory.
C1_UnboundIdThrowsNotFound ==
    (IsGet /\ \A d \in ReachFrom({last.c}) : bindings[d][last.id] = Undefined)
    => /\ last.result.kind = "BindingNotFoundError"
       /\ last.result.id = last.id
       /\ last.result.invoked = <<>>

\* C2: when the id is bound in the container itself, get(id) invokes the
\* factory of that local binding first and returns what it built, whatever
\* the ancestors bind the id to.
C2_LocalBindingWins ==
    (IsGet /\ bindings[last.c][last.id] # Undefined)
    => /\ Len(last.result.invoked) >= 1
       /\ last.result.invoked[1] = bindings[last.c][last.id]
       /\ last.result.kind = "value"
            => last.result.value.by = bindings[last.c][last.id]

C2_Witness ==
    /\ IsGet
    /\ bindings[last.c][last.id] # Undefined
    /\ \E d \in Ancestors(last.c) \ {last.c} :
            bindings[d][last.id] \notin {Undefined, bindings[last.c][last.id]}
    /\ last.result.kind = "value"
    /\ last.result.value.by = bindings[last.c][last.id]

\* C3: when C.get(id) takes the factory from an ancestor P, what the factory
\* requests through inject is searched from C: the request has the outcome of
\* C.get(x), and an id that both C and P bind resolves to C's binding.
C3_InjectIsGetOfCallee ==
    (/\ IsGet
     /\ bindings[last.c][last.id] = Undefined
     /\ Len(last.result.invoked) >= 1
     /\ Requests(last.result.invoked[1]) # <<>>)
    => LET f == last.result.invoked[1]
           x == Requests(f)[1]
           n1 == [CountsBefore EXCEPT ![f] = @ + 1]
           direct == get(last.c, x, n1, 2)
       IN  /\ last.result.kind = direct.kind
           /\ last.result.counts = direct.counts
           /\ last.result.invoked = <<f>> \o direct.invoked
           /\ direct.kind = "value" => last.result.value.deps = <<direct.value>>
           /\ direct.kind # "value" => last.result.id = direct.id
           /\ bindings[last.c][x] # Undefined
                => /\ last.result.kind = "value"
                   /\ last.result.value.deps[1].by = bindings[last.c][x]

C3_Witness ==
    /\ IsGet
    /\ bindings[last.c][last.id] = Undefined
    /\ last.result.kind = "value"
    /\ Requests(last.result.value.by) # <<>>
    /\ LET x == Requests(last.result.value.by)[1]
       IN  /\ bindings[last.c][x] # Undefined
           /\ \E P \in Ancestors(last.c) \ {last.c} :
                /\ bindings[P][last.id] = last.result.value.by
                /\ bindings[P][x] \notin {Undefined, bindings[last.c][x]}
           /\ last.result.value.deps[1].by = bindings[last.c][x]

\* The flattened search order of a container: the container itself, then the
\* flattened order of each of its parents, in list order.  Loop stands where
\* the order comes back to a container it is still expanding, which is where
\* it stops being a finite list.
Loop == MaxContainers + 1

RECURSIVE Flatten(_, _), FlattenAll(_, _, _)
Flatten(c, path) ==
    IF c \in path THEN <<Loop>>
    ELSE <<c>> \o FlattenAll(parents[c], 1, path \cup {c})

FlattenAll(ps, i, path) ==
    IF i > Len(ps) THEN <<>>
    ELSE Flatten(ps[i], path) \o FlattenAll(ps, i + 1, path)

\* The first container of an order that binds the id decides; an order that
\* loops before any container binds it gives no answer.
RECURSIVE FirstMatchFrom(_, _, _)
FirstMatchFrom(order, k, id) ==
    IF k > Len(order) THEN Undefined
    ELSE IF order[k] = Loop THEN Overflow
    ELSE IF bindings[order[k]][id] # Undefined THEN bindings[order[k]][id]
    ELSE FirstMatchFrom(order, k + 1, id)

FirstMatch(order, id) == FirstMatchFrom(order, 1, id)

C5_ChildFallsBackToAncestors ==
    (IsGet /\ origin[last.c] # 0 /\ bindings[last.c][last.id] = Undefined)
    => LET P == origin[last.c]
           ViaFactory(f) ==
                /\ Len(last.result.invoked) >= 1
                /\ last.result.invoked[1] = f
                /\ last.result.kind = "value" => last.result.value.by = f
                /\ Requests(f) = <<>> => last.result.kind = "value"
       IN  /\ bindings[P][last.id] # Undefined => ViaFactory(bindings[P][last.id])
           /\ (/\ bindings[P][last.id] = Undefined
               /\ origin[P] # 0
               /\ bindings[origin[P]][last.id] # Undefined)
              => ViaFactory(bindings[origin[P]][last.id])

C5_Witness ==
    /\ IsGet
    /\ origin[last.c] # 0
    /\ origin[origin[last.c]] # 0
    /\ bindings[last.c][last.id] = Undefined
    /\ bindings[origin[last.c]][last.id] = Undefined
    /\ bindings[origin[origin[last.c]]][last.id] # Undefined
    /\ last.result.kind = "value"
    /\ last.result.value.by = bindings[origin[origin[last.c]]][last.id]

\* C6: get never caches.  Every get that finds a factory invokes it: a call
\* that ends in a value of a factory without requests raises that factory's
\* invocation count by exactly one and no other count, so n such calls make n
\* invocations, and the value returned is the one built by that invocation.
C6_EveryGetInvokes ==
    [][(last'.op = "get" /\ last'.result.kind = "value"
        /\ Requests(last'.result.value.by) = <<>>)
       => LET f == last'.result.value.by
          IN  /\ invocations' = [invocations EXCEPT ![f] = @ + 1]
              /\ last'.result.invoked = <<f>>
              /\ last'.result.value.serial = invocations'[f]]_vars

C6_Witness ==
    /\ IsGet
    /\ last.result.kind = "value"
    /\ Requests(last.result.value.by) = <<>>
    /\ last.result.invoked = <<last.result.value.by>>
    /\ invocations[last.result.value.by] >= 2
    /\ last.result.value.serial = invocations[last.result.value.by]

IsExtend == last.op = "extend"

NoDuplicates(seq) == \A j, k \in 1..Len(seq) : seq[j] = seq[k] => j = k

IsPrefix(old, new) ==
    /\ Len(old) <= Len(new)
    /\ \A k \in 1..Len(old) : new[k] = old[k]

\* The arguments of a call that the list `old` does not hold, each at the
\* place where it is passed first.
RECURSIVE Additions(_, _, _)
Additions(old, args, k) ==
    IF k > Len(args) THEN <<>>
    ELSE IF args[k] \in Range(old) \/ \E j \in 1..(k - 1) : args[j] = args[k]
         THEN Additions(old, args, k + 1)
         ELSE <<args[k]>> \o Additions(old, args, k + 1)

\* C7: extend is idempotent.  A registry that is in the parents list already,
\* or that is passed twice in one call, is not added again and keeps its
\* place; the registries that are new are appended in the order they are
\* passed; the call returns the registry it was called on.
C7_ExtendIsIdempotent ==
    IsExtend
    => /\ last.ret = last.c
       /\ parents[last.c] = last.before \o Additions(last.before, last.args, 1)
       /\ Range(last.args) \subseteq Range(last.before)
            => parents[last.c] = last.before
       /\ \A a \in Range(last.args) :
            Cardinality({k \in 1..Len(parents[last.c]) : parents[last.c][k] = a}) = 1

C7_Witness ==
    /\ IsExtend
    /\ Len(last.args) = 2
    /\ last.args[1] \in Range(last.before)
    /\ last.args[2] \notin Range(last.before)
    /\ last.args[2] # last.c
    /\ parents[last.c] = Append(last.before, last.args[2])

\* C8: in every reachable state no parents list holds a registry twice, and
\* every operation leaves each registry's previous parents list as a prefix
\* of its new one: parents are only ever appended.
C8_ParentsOnlyGrowWithoutDuplicates ==
    /\ [](\A c \in Slots : NoDuplicates(parents[c]))
    /\ [][\A c \in Slots : IsPrefix(parents[c], parents'[c])]_vars

C8_Witness ==
    /\ IsExtend
    /\ last.args[1] \in Range(last.before)
    /\ Len(parents[last.c]) > Len(last.before)
    /\ Len(last.before) >= 1
    /\ \E c \in Containers \ {last.c} : Len(parents[c]) >= 1

\* The factory that container c answers get(id) with out of its own bindings
\* object, Undefined when that object gives none.
localFactory(B, c, id) ==
    IF propertyGet(B[c], id) \in RecordFactories THEN propertyGet(B[c], id)
    ELSE Undefined

\* C9: the container that Container.merge(c1, ..., cn) returns binds locally
\* exactly the ids that some ci binds locally, string and symbol ids alike,
\* and holds for each of them the factory of the last ci that binds it.
C9_MergeHoldsUnionLastWins ==
    last.op = "merge"
    => \A id \in RecordIds :
        LET cs == last.containers
            binders == {k \in 1..Len(cs) : localFactory(recordBindings, cs[k], id) # Undefined}
        IN  IF binders = {}
            THEN localFactory(recordBindings, last.ret, id) = Undefined
            ELSE LET k == CHOOSE h \in binders : \A g \in binders : g <= h
                 IN  localFactory(recordBindings, last.ret, id)
                        = localFactory(recordBindings, cs[k], id)

\* What get(id) on c ends in, in the heap B, P: the invocation counts of the
\* moment left aside.
Outcome(B, P, c, id) == recordGet(B, P, c, id, [f \in DOMAIN invocations |-> 0])

\* C10: a merged container shares no state with its inputs.  A later bind on
\* an input leaves the outcome of get on the merged container unchanged for
\* every id, and a later bind on the merged container leaves every input, and
\* the outcome of get on it, unchanged.
C10_MergedIsIndependent ==
    [][last'.op = "bind"
       => \A m \in RecordContainers : \A c \in Range(mergedFrom[m]) :
            /\ last'.c = c
                => /\ recordBindings'[m] = recordBindings[m]
                   /\ parent'[m] = parent[m]
                   /\ \A id \in RecordIds :
                        Outcome(recordBindings', parent', m, id)
                            = Outcome(recordBindings, parent, m, id)
            /\ last'.c = m
                => /\ recordBindings'[c] = recordBindings[c]
                   /\ parent'[c] = parent[c]
                   /\ \A id \in RecordIds :
                        Outcome(recordBindings', parent', c, id)
                            = Outcome(recordBindings, parent, c, id)]_vars

C10_Witness ==
    /\ last.op = "bind"
    /\ \E m \in RecordContainers :
        /\ last.c \in Range(mergedFrom[m])
        /\ localFactory(recordBindings, m, last.id) \notin {Undefined, last.f}
        /\ localFactory(recordBindings, last.c, last.id) = last.f
        /\ Outcome(recordBindings, parent, m, last.id).kind = "value"
        /\ Outcome(recordBindings, parent, m, last.id).value.by
                = localFactory(recordBindings, m, last.id)

Binders(S, id) == {d \in ReachFrom(S) : bindings[d][id] # Undefined}

\* C12: remove(id) deletes the receiver's own entry only.  After
\* child.remove(id), where an ancestor of the child binds the id,
\* isRegisteredHere(id) is false on the child, isRegistered(id) is true on
\* the child and on that ancestor, and child.get(id) invokes the factory of
\* an ancestor.
C12_RemoveIsLocal ==
    last.op = "remove"
    => /\ last.ret = last.c
       /\ ~isRegisteredHere(last.c, last.id)
       /\ \A A \in Binders(Range(parents[last.c]), last.id) :
            /\ isRegistered(last.c, last.id, {}) = "true"
            /\ isRegistered(A, last.id, {}) = "true"
            /\ LET r == get(last.c, last.id, invocations, 1)
               IN  /\ Len(r.invoked) >= 1
                   /\ \E D \in Binders(Range(parents[last.c]), last.id) :
                        r.invoked[1] = bindings[D][last.id]

\* C13: isRegistered(id) is true exactly when the registry itself or a
\* registry reachable from it through parents lists binds the id locally,
\* and false otherwise; isRegisteredHere(id) reads the registry's own
\* mapping only.
C13_IsRegisteredIffReachable ==
    last.op = "isRegistered"
    => /\ last.result = (IF Binders({last.c}, last.id) # {} THEN "true" ELSE "false")
       /\ isRegisteredHere(last.c, last.id) <=> bindings[last.c][last.id] # Undefined

\* C14: register(id, f) inserts or overwrites.  Right after it
\* isRegisteredHere(id) is true on the receiver, the receiver's mapping holds
\* f and no other factory for the id, get(id) on the receiver invokes f (and
\* f alone when f requests nothing), also when the id was bound to another
\* factory before; register returns the receiver.
C14_RegisterOverwrites ==
    last.op = "register"
    => /\ last.ret = last.c
       /\ isRegisteredHere(last.c, last.id)
       /\ bindings[last.c][last.id] = last.f
       /\ LET r == get(last.c, last.id, invocations, 1)
          IN  /\ Len(r.invoked) >= 1
              /\ r.invoked[1] = last.f
              /\ r.kind = "value" => r.value.by = last.f
              /\ Requests(last.f) = <<>> => r.kind = "value" /\ r.invoked = <<last.f>>

C14_Witness ==
    /\ last.op = "register"
    /\ count = 1
    /\ \E f1 \in Factories \ {last.f} : f1 \in FactoriesFor(last.id) /\ invocations[f1] >= 1
    /\ get(last.c, last.id, invocations, 1).kind = "value"
    /\ get(last.c, last.id, invocations, 1).value.by = last.f

\* C15: createChild() returns a new registry with an empty local mapping
\* whose parents list is exactly [receiver]: the state it leaves is the state
\* that constructing a registry and calling extend(receiver) on it leaves, so
\* all later behaviour is the same; the mapping and the parents list of the
\* receiver, and of every other registry, are unchanged.
C15_CreateChildIsNewThenExtend ==
    [][last'.op = "createChild"
       => LET c == last'.c
              k == last'.ret
          IN  /\ k = count + 1
              /\ count' = count + 1
              /\ k \notin Containers
              /\ \A id \in Ids : bindings'[k][id] = Undefined
              /\ parents'[k] = <<c>>
              /\ bindings' = bindings
              /\ \A d \in Slots \ {k} : parents'[d] = parents[d]
              /\ invocations' = invocations
              \* new Container(), then extend(receiver) on it
              /\ parents' = [parents EXCEPT ![k] = pushUnique(<<>>, <<c>>, 1)]
              /\ parents[k] = <<>> /\ \A id \in Ids : bindings[k][id] = Undefined]_vars

C15_Witness ==
    /\ last.op = "createChild"
    /\ parents[last.ret] = <<last.c>>
    /\ parents[last.c] # <<>>
    /\ \E id \in Ids : bindings[last.c][id] # Undefined
    /\ \A id \in Ids : bindings[last.ret][id] = Undefined

\* The registry c resolves "x" to a factory that requests "y" while it
\* constructs, and "y" to a factory that requests "x" only in the method of
\* the object it returns.
WiredLazily(c) ==
    /\ findBinding(c, "x", {}) = "needY"
    /\ findBinding(c, "y", {}) = "laterX"

OnceEach == [invocations EXCEPT !["needY"] = @ + 1, !["laterX"] = @ + 1]

\* C16: mutual reference with deferred use.  Where F1 of X requests Y during
\* construction and F2 of Y requests X only inside a method of its object,
\* get(X) returns and invokes F1 once and F2 once; each later call of the
\* method resolves X once more, invoking F1 once and F2 once again, and
\* returns.
C16_DeferredMutualReference ==
    [][/\ (last'.op = "get" /\ last'.id = "x" /\ WiredLazily(last'.c))
            => /\ last'.result.kind = "value"
               /\ last'.result.value.by = "needY"
               /\ last'.result.value.deps[1].by = "laterX"
               /\ last'.result.invoked = <<"needY", "laterX">>
               /\ invocations' = OnceEach
       /\ (/\ last'.op = "call"
           /\ last'.object.by = "needY"
           /\ last'.object.deps[1].by = "laterX"
           /\ WiredLazily(last'.object.deps[1].inject))
            => /\ last'.result.kind = "value"
               /\ last'.result.value.by = "needY"
               /\ last'.result.invoked = <<"needY", "laterX">>
               /\ invocations' = OnceEach]_vars

C16_Witness ==
    /\ last.op = "call"
    /\ last.object.by = "needY"
    /\ last.object.deps[1].by = "laterX"
    /\ WiredLazily(last.object.deps[1].inject)
    /\ last.result.kind = "value"
    /\ invocations["needY"] = 3
    /\ invocations["laterX"] = 3

\* What the last get or method call ended in.
Ended == last.op \in {"get", "call"}

\* C17: an error thrown by a factory during get reaches the caller of the
\* outermost get as that same error: whenever a factory that throws is
\* invoked, at the top of the call or nested in the requests of other
\* factories, the call ends in the error of that factory, which is the last
\* one invoked, never in a value or in BindingNotFoundError.
C17_FactoryErrorsPropagate ==
    Ended
    => LET r == last.result
       IN  /\ (\E k \in 1..Len(r.invoked) : Throws(r.invoked[k]))
                => /\ r.kind = "Error"
                   /\ r.id = r.invoked[Len(r.invoked)]
                   /\ Throws(r.id)
                   /\ \A k \in 1..(Len(r.invoked) - 1) : ~Throws(r.invoked[k])
           /\ (/\ last.op = "get"
               /\ findBinding(last.c, last.id, {}) = "needY"
               /\ findBinding(last.c, "y", {}) = "boom")
                => r.kind = "Error" /\ r.id = "boom" /\ r.invoked = <<"needY", "boom">>
           /\ (last.op = "get" /\ findBinding(last.c, last.id, {}) = "boom")
                => r.kind = "Error" /\ r.id = "boom" /\ r.invoked = <<"boom">>

C17_Witness ==
    /\ last.op = "get"
    /\ last.result.kind = "Error"
    /\ last.result.id = "boom"
    /\ last.result.invoked = <<"needY", "boom">>

\* The registries that have A among their ancestors.
Descendants(A) == {c \in Containers \ {A} : A \in Ancestors(c)}

\* C18: descendants see a live view of their ancestors.  After register(id, f)
\* on an ancestor, get(id) on a descendant that reaches no other binding of
\* the id invokes f; after remove(id) on an ancestor, get(id) on a descendant
\* invokes the factory of a binding that is left, or throws
\* BindingNotFoundError when none is left.
C18_DescendantsSeeLiveView ==
    /\ last.op = "register"
        => \A c \in Descendants(last.c) :
            Binders({c}, last.id) = {last.c}
            => LET r == get(c, last.id, invocations, 1)
               IN  Len(r.invoked) >= 1 /\ r.invoked[1] = last.f
    /\ last.op = "remove"
        => \A c \in Descendants(last.c) :
            LET r == get(c, last.id, invocations, 1)
                left == Binders({c}, last.id)
            IN  IF left = {}
                THEN r.kind = "BindingNotFoundError" /\ r.id = last.id /\ r.invoked = <<>>
                ELSE /\ Len(r.invoked) >= 1
                     /\ \E D \in left : r.invoked[1] = bindings[D][last.id]

\* C19: register and remove change nothing but the receiver's local entry for
\* the id: the receiver's entries for other ids, its parents list, and the
\* mapping and parents list of every other registry (its parents and children
\* included) are the same after the call as before it; no registry is created
\* and no factory is invoked.
C19_RegisterRemoveFrame ==
    [][last'.op \in {"register", "remove"}
       => /\ \A d \in Slots : \A i \in Ids :
                (d # last'.c \/ i # last'.id) => bindings'[d][i] = bindings[d][i]
          /\ bindings'[last'.c][last'.id] =
                IF last'.op = "register" THEN last'.f ELSE Undefined
          /\ parents' = parents
          /\ count' = count
          /\ origin' = origin
          /\ invocations' = invocations
          /\ last'.ret = last'.c]_vars

\* A registry has just registered an id that one of its parents binds to
\* another factory, while it holds another id of its own.
C19_Witness ==
    /\ last.op = "register"
    /\ \E k \in 1..Len(parents[last.c]) :
          LET p == parents[last.c][k]
          IN  /\ p # last.c
              /\ bindings[p][last.id] \notin {Undefined, last.f}
    /\ \E i \in Ids \ {last.id} : bindings[last.c][i] # Undefined

\* The two factories of an eager cycle, each requesting the id of the other
\* while it constructs, as get on c finds them.
EagerCycle(c) ==
    /\ findBinding(c, "x", {}) = "needY"
    /\ findBinding(c, "y", {}) = "needX"

\* The factories a get of id on a registry with an eager cycle invokes, one
\* for each of the k nested calls.
Alternating(id, k) ==
    [j \in 1..k |-> IF (j % 2 = 1) = (id = "x") THEN "needY" ELSE "needX"]

\* C20: when the factory bound to A requests B while it constructs and the
\* factory bound to B requests A while it constructs, get(A) neither returns a
\* value nor throws BindingNotFoundError: the two factories invoke each other
\* in turn, one nested call deeper each time, until the call stack is
\* exhausted, however many nested calls the stack holds; nothing detects the
\* cycle.
C20_EagerCycleNeverReturns ==
    (last.op = "get" /\ EagerCycle(last.c))
    => LET r == last.result
       IN  /\ r.kind = "RangeError"
           /\ r.invoked = Alternating(last.id, MaxDepth)
           /\ r.counts = invocations

\* get("x") on a registry that binds x and y to the two factories of an eager
\* cycle has just exhausted the stack.
C20_Witness ==
    /\ last.op = "get"
    /\ last.id = "x"
    /\ EagerCycle(last.c)
    /\ last.result.kind = "RangeError"
    /\ Len(last.result.invoked) = MaxDepth
    /\ last.result.invoked[1] = "needY"
    /\ last.result.invoked[2] = "needX"

\* The error the application holds: one it built or one it caught.
HasError == last.op \in {"new BindingNotFoundError", "catch"}

\* C21: the message of a BindingNotFoundError built from an id is
\* 'Binding "<d>" not found!' where <d> is the string itself for a string id
\* and 'Symbol(<description>)' for a symbol id, and the error is an instance
\* of Error.
C21_MessageEmbedsDisplayForm ==
    HasError
    => LET id == last.id
           e == last.error
       IN  /\ id.type = "string"
                => e.message = "Binding \"" \o id.text \o "\" not found!"
           /\ id.type = "symbol"
                => e.message = "Binding \"Symbol(" \o id.text \o ")\" not found!"
           /\ id = [type |-> "string", text |-> "banana"]
                => e.message = "Binding \"banana\" not found!"
           /\ id = [type |-> "symbol", text |-> "aliens"]
                => e.message = "Binding \"Symbol(aliens)\" not found!"
           /\ instanceof(e, "Error")

\* An error has been built from the symbol with the description "aliens".
C21_Witness ==
    /\ last.op = "new BindingNotFoundError"
    /\ last.id = [type |-> "symbol", text |-> "aliens"]
    /\ last.error.message = "Binding \"Symbol(aliens)\" not found!"

\* C22: when get(X) finds a factory that requests an id Y while it constructs
\* and the search from the registry get was called on finds no binding of Y,
\* get(X) fails with BindingNotFoundError naming Y, not X: the factory of X
\* was invoked once and no other factory was, nothing is retried, and no
\* value is returned.
C22_NestedNotFoundNamesRequestedId ==
    [][(/\ last'.op = "get"
        /\ findBinding(last'.c, last'.id, {}) \in Factories
        /\ Requests(findBinding(last'.c, last'.id, {})) # <<>>
        /\ findBinding(last'.c, Requests(findBinding(last'.c, last'.id, {}))[1], {})
                = Undefined)
       => LET f == findBinding(last'.c, last'.id, {})
              Y == Requests(f)[1]
              r == last'.result
          IN  /\ r.kind = "BindingNotFoundError"
              /\ r.id = Y
              /\ Y # last'.id
              /\ r.invoked = <<f>>
              /\ invocations' = [invocations EXCEPT ![f] = @ + 1]
              /\ bindings' = bindings /\ parents' = parents]_vars

\* get("x") on a child found the parent's factory, which requests "y"; no
\* registry binds "y" and the call failed naming "y".
C22_Witness ==
    /\ last.op = "get"
    /\ last.id = "x"
    /\ bindings[last.c]["x"] = Undefined
    /\ findBinding(last.c, "x", {}) = "needY"
    /\ findBinding(last.c, "y", {}) = Undefined
    /\ last.result.kind = "BindingNotFoundError"
    /\ last.result.id = "y"
    /\ last.result.invoked = <<"needY">>

\* C23: an inject kept by a factory and called after the get has returned
\* resolves against the mapping and the parents lists as they are at the time
\* of that call.  The method of the kept object requests "x": the call invokes
\* the factory the registry the get was called on finds now, and fails with
\* BindingNotFoundError when it finds none now; a binding registered or
\* overwritten on that registry since the get decides, a binding removed from
\* it since is gone, and a parent added to it since is searched.
C23_RetainedInjectSeesCurrentState ==
    [][(last'.op = "call" /\ Deferred(last'.object.by) # <<>>)
       => LET c == last'.object.inject
              id == Deferred(last'.object.by)[1]
              r == last'.result
              now == findBinding(c, id, {})
          IN  /\ now \in Factories => r.invoked # <<>> /\ r.invoked[1] = now
              /\ now = Undefined
                    => r.kind = "BindingNotFoundError" /\ r.id = id /\ r.invoked = <<>>
              /\ (last.op = "register" /\ last.c = c /\ last.id = id)
                    => r.invoked # <<>> /\ r.invoked[1] = last.f
              /\ (last.op = "remove" /\ last.c = c /\ last.id = id /\ parents[c] = <<>>)
                    => r.kind = "BindingNotFoundError" /\ r.id = id /\ r.invoked = <<>>
              /\ (/\ last.op = "extend" /\ last.c = c /\ last.before = <<>>
                  /\ bindings[c][id] = Undefined
                  /\ last.args[1] # c
                  /\ bindings[last.args[1]][id] # Undefined)
                    => r.invoked # <<>> /\ r.invoked[1] = bindings[last.args[1]][id]]_vars

\* The method of the only object built so far has resolved "x" through a
\* parent of its registry.  Parents are added only by an application that
\* already holds an object, so the parent was added after the get returned.
C23_Witness ==
    /\ last.op = "call"
    /\ last.object.by = "laterX"
    /\ last.result.kind = "value"
    /\ last.result.value.by = "fa"
    /\ invocations = [f \in DOMAIN invocations |->
                        IF f \in {"laterX", "fa"} THEN 1 ELSE 0]
    /\ bindings[last.object.inject]["x"] = Undefined
    /\ parents[last.object.inject] # <<>>

\* An id that has been passed to register on the container whose dependencies
\* object is obj: the assignment made an own property, or, for "__proto__",
\* replaced the prototype.
registeredOn(obj, id) ==
    IF id = "__proto__" THEN obj.proto # ObjectPrototype ELSE hasOwnProperty(obj, id)

\* C24: clone() returns a new container in which every id registered on the
\* original, string or symbol, is registered with the same factory, so that
\* get(id) on the clone returns a value exactly when get(id) on the original
\* does.
C24_CloneKeepsEveryBinding ==
    last.op = "clone"
    => LET original == recordBindings[last.c]
           cloned == recordBindings[last.ret]
       IN  /\ last.ret # last.c
           /\ \A id \in PropertyIds :
                registeredOn(original, id)
                => /\ registeredOn(cloned, id)
                   /\ propertyGet(cloned, id) = propertyGet(original, id)
           /\ \A id \in PropertyIds :
                (dependencyGet(recordBindings, last.ret, id, invocations).kind = "value")
                <=> (dependencyGet(recordBindings, last.c, id, invocations).kind = "value")

\* The container c and the containers on its parent chain.
RECURSIVE parentChain(_)
parentChain(c) == IF parent[c] = NoParent THEN {c} ELSE {c} \cup parentChain(parent[c])

\* C25: in the containers that keep their bindings in a plain object, get(id)
\* throws the not-found error for every string or symbol id that was never
\* passed to bind on the container or on a container of its parent chain, the
\* names every plain object inherits (such as "toString") included.
C25_NeverBoundIdIsNotFound ==
    (/\ last.op = "get"
     /\ \A d \in parentChain(last.c) : ~registeredOn(recordBindings[d], last.id))
    => /\ last.result.kind = "BindingNotFoundError"
       /\ last.result.id = last.id

\* C26: in every hierarchy built by createChild and extend, the lookup of
\* get(id) and of isRegistered(id) terminates for every registry and id: it
\* finds a factory or none, and answers true or false.
C26_LookupTerminates ==
    \A c \in Containers, id \in Ids :
        /\ findBinding(c, id, {}) # Overflow
        /\ isRegistered(c, id, {}) \in {"true", "false"}

\* C27 as written: isRegistered(id) is true if and only if get(id) does not
\* fail with BindingNotFoundError.
C27_RegisteredIffGetDoesNotFail ==
    /\ last.op = "isRegistered"
        => ((last.result = "true")
            <=> get(last.c, last.id, invocations, 1).kind # "BindingNotFoundError")
    /\ last.op = "get"
        => ((isRegistered(last.c, last.id, {}) = "true")
            <=> last.result.kind # "BindingNotFoundError")

\* What isRegistered answers and what get does agree on the binding of id.
Agree(answer, c, id, r) ==
    /\ (answer = "true") <=> (findBinding(c, id, {}) \in Factories)
    /\ (answer = "true") <=> (r.invoked # <<>> /\ r.invoked[1] = findBinding(c, id, {}))
    /\ (answer = "false")
        <=> (r.kind = "BindingNotFoundError" /\ r.id = id /\ r.invoked = <<>>)

\* C27: the introspection and the resolution agree on which ids are
\* reachable.  isRegistered(id) is true if and only if findBinding(id) returns
\* a factory, which get(id) then invokes, and it is false if and only if
\* get(id) fails with BindingNotFoundError for that id before any factory is
\* invoked.
C27_RegisteredIffLookupFindsFactory ==
    /\ last.op = "isRegistered"
        => Agree(last.result, last.c, last.id, get(last.c, last.id, invocations, 1))
    /\ last.op = "get"
        => Agree(isRegistered(last.c, last.id, {}), last.c, last.id, last.result)

\* get has failed with BindingNotFoundError for an id its factory requested,
\* on a registry that finds the id it was asked for in a parent.
C27_Witness ==
    /\ last.op = "get"
    /\ bindings[last.c][last.id] = Undefined
    /\ isRegistered(last.c, last.id, {}) = "true"
    /\ last.result.kind = "BindingNotFoundError"
    /\ last.result.id # last.id
    /\ last.result.invoked = <<findBinding(last.c, last.id, {})>>

\* C28: within one get(id) the search for the factory is over before any code
\* of the factory runs.  The factory found in the registries as they are when
\* get is called is the one invoked, and when it removes or overwrites
\* bindings (its own included) or extends the root while it runs, the get
\* still returns the value it builds; what it changed is seen by the lookups
\* that start afterwards: by the requests the factory makes next and by later
\* get calls.  The root that the factories change is the registry get was
\* called on or one of its ancestors when it is reachable from that registry.
C28_SearchCompletesBeforeFactoryRuns ==
    [][last'.op = "get"
       => LET c == last'.c
              b == findBinding(c, last'.id, {})
              r == last'.result
              after == findBindingIn(Heap', c, "x", {})
          IN  /\ b # Undefined => r.invoked # <<>> /\ r.invoked[1] = b
              /\ b = "removesY"
                    => /\ r.kind = "value" /\ r.value.by = "removesY"
                       /\ r.invoked = <<"removesY">>
                       /\ bindings'[1]["y"] = Undefined
              /\ b = "rebindsX"
                    => /\ bindings'[1]["x"] = "fb"
                       /\ IF after = Undefined
                          THEN /\ r.kind = "BindingNotFoundError" /\ r.id = "x"
                               /\ r.invoked = <<"rebindsX">>
                          ELSE /\ r.kind = "value" /\ r.value.by = "rebindsX"
                               /\ r.value.deps[1].by = after
                       /\ 1 \in ReachFrom({c})
                            => r.kind = "value" /\ r.value.by = "rebindsX"
                       /\ c = 1 => r.value.deps[1].by = "fb"
              /\ b = "extendsRoot"
                    => /\ \E k \in 1..Len(parents'[1]) : parents'[1][k] = 2
                       /\ IF after = Undefined
                          THEN /\ r.kind = "BindingNotFoundError" /\ r.id = "x"
                               /\ r.invoked = <<"extendsRoot">>
                          ELSE /\ r.kind = "value" /\ r.value.by = "extendsRoot"
                               /\ r.value.deps[1].by = after
                       /\ (/\ c = 1 /\ parents[1] = <<>>
                           /\ bindings[1]["x"] = Undefined
                           /\ bindings[2]["x"] # Undefined)
                            => r.kind = "value" /\ r.value.deps[1].by = bindings[2]["x"]
              /\ (/\ last.op = "get" /\ last.result.kind = "value"
                  /\ last.result.value.by = "removesY"
                  /\ c = 1 /\ last'.id = "y" /\ parents[1] = <<>>)
                    => r.kind = "BindingNotFoundError" /\ r.id = "y" /\ r.invoked = <<>>]_vars

\* get("y") on the root has returned the value of a factory that removed its
\* own binding from the root while it ran.
C28_Witness ==
    /\ last.op = "get"
    /\ last.c = 1
    /\ last.id = "y"
    /\ last.result.kind = "value"
    /\ last.result.value.by = "removesY"
    /\ bindings[1]["y"] = Undefined

\* C29: when hierarchies are built with createChild only, every registry has
\* at most one parent, which is the registry whose createChild made it, no
\* registry is its own ancestor, and the search order of a lookup is the chain
\* from the registry to the root with every registry on it once, so that the
\* lookup terminates.
C29_CreateChildOnlyIsAcyclic ==
    \A c \in Containers :
        /\ Len(parents[c]) <= 1
        /\ parents[c] = IF origin[c] = 0 THEN <<>> ELSE <<origin[c]>>
        /\ \A k \in 1..Len(parents[c]) : parents[c][k] < c
        /\ c \notin Ancestors(c)
        /\ NoDuplicates(Flatten(c, {}))
        /\ Range(Flatten(c, {})) = {c} \cup Ancestors(c)
        /\ \A id \in Ids : findBinding(c, id, {}) # Overflow

\* A chain of three registries: a child of a child of the root.
C29_Witness ==
    /\ count = 3
    /\ parents[3] = <<2>>
    /\ parents[2] = <<1>>
    /\ Flatten(3, {}) = <<3, 2, 1>>

\* C30: get(id), isRegistered(id) and isRegisteredHere(id) write nothing: with
\* factories that call no method of a registry, the local mapping and the
\* parents list of every registry are the same after the call as before it,
\* whether the call returns or throws, and no registry is made; the two
\* introspections invoke no factory either.
C30_ReadsWriteNothing ==
    [][last'.op \in {"get", "isRegistered", "isRegisteredHere"}
       => /\ bindings' = bindings
          /\ parents' = parents
          /\ count' = count
          /\ origin' = origin
          /\ last'.op # "get" => invocations' = invocations
          /\ last'.op = "isRegisteredHere"
                => last'.result = IF bindings[last'.c][last'.id] # Undefined
                                  THEN "true" ELSE "false"]_vars

\* get has returned a value built by a factory that a parent binds.
C30_Witness ==
    /\ last.op = "get"
    /\ last.result.kind = "value"
    /\ bindings[last.c][last.id] = Undefined
    /\ parents[last.c] # <<>>
    /\ last.result.value.by = findBinding(last.c, last.id, {})

====
